---- MODULE Spec2Model ----
(***************************************************************************)
(* Glossary trainer: the Leitner scheduler (scheduleNext), the memoised    *)
(* queue selection (dueToday / newCards / queue) and the handlers of the   *)
(* App component that change the card set.                                 *)
(*                                                                         *)
(* Calendar dates ("YYYY-MM-DD" strings in the source) are day numbers;    *)
(* string comparison and localeCompare of such strings is the order of the *)
(* day numbers.  Instants are hours since day 0, 00:00 UTC.                *)
(***************************************************************************)
EXTENDS Integers, Sequences, FiniteSets, TLC

VARIABLES
    all,          \* useState<Term[]>(load())
    mode,         \* useState<Mode>("review")
    showBack,     \* useState(false)
    sessionSize,  \* useState(20)
    dueToday,     \* useMemo(..., [all]): value of the last computation
    storage,      \* localStorage[STORAGE_KEY]: "null" or the saved card list
    nextId,       \* source of fresh uid() values
    clock,        \* the UTC calendar day the system clock shows
    tz,           \* the time zone of the browser
    call,         \* one direct call of scheduleNext: argument, rating, result
    query,        \* useState(""): the search text of browse mode
    swState,      \* the service worker: its state in the lifecycle
    cacheStore,   \* CacheStorage of the origin: cache name -> (URL -> response)
    reply         \* what the worker answered to the last fetch event

vars == <<all, mode, showBack, sessionSize, dueToday, storage, nextId, clock, tz, call, query,
          swState, cacheStore, reply>>

\* The variables of the service worker, which shares no state with App.
swVars == <<swState, cacheStore, reply>>

---------------------------------------------------------------------------
\* Bounds of the model
MaxDay == 1      \* the clock runs over days 0..MaxDay
MaxHist == 3     \* a card is rated at most MaxHist times
MaxId == 2       \* uid() values handed out
MaxQCards == 7   \* cards in a drawn card set of the queue selector

Ratings == {"again", "hard", "good", "easy"}
Modes == {"review", "learn", "browse"}

Max(a, b) == IF a >= b THEN a ELSE b
Min(a, b) == IF a <= b THEN a ELSE b

---------------------------------------------------------------------------
\* Time zones: UTC offset `base` hours before the instant dstAt, and
\* base + delta hours from dstAt on (delta = 0: no daylight-saving change).
\*   UTC, and UTC-5 with the clocks put forward on day 1 at 02:00 local time
\*   (07:00 UTC, the instant 31).
Zones ==
    { [base |-> 0, delta |-> 0, dstAt |-> 0],
      [base |-> 0 - 5, delta |-> 1, dstAt |-> 31] }

\* Offset of local time from UTC at the UTC instant h.
UtcOffset(z, h) == IF h >= z.dstAt THEN z.base + z.delta ELSE z.base

\* The UTC instant of the local wall-clock time L (MakeDate(..., UTC(t))):
\* a wall-clock time that is skipped or repeated at the change is read with
\* the offset before the change.
LocalToUtc(z, L) ==
    LET hPre == L - z.base
        hPost == L - (z.base + z.delta)
    IN  IF hPre < z.dstAt THEN hPre
        ELSE IF hPost >= z.dstAt THEN hPost
        ELSE hPre

\* todayISO(): the UTC date of now.
todayISO == clock

\* addDays(iso, days): new Date(iso) is UTC midnight of iso; getDate/setDate
\* work on the LOCAL calendar date and keep the local time of day;
\* toISOString().slice(0, 10) is the UTC date of the result.
addDays(iso, days) ==
    LET d == iso * 24
        loc == d + UtcOffset(tz, d)
        date == loc \div 24
        tod == loc % 24
        moved == (date + days) * 24 + tod
    IN  LocalToUtc(tz, moved) \div 24

LEITNER_INTERVALS == <<0, 1, 3, 7, 14, 30>>

---------------------------------------------------------------------------
\* Variants of scheduleNext with one slip each.
\* The ceiling of 5 is missing for "good" and "easy".
scheduleNext_noCeiling(term, rating) ==
    LET b0 == term.bucket
        b1 == IF rating = "again" THEN Max(1, b0 - 1) ELSE b0
        b2 == IF rating = "hard" THEN Max(1, b1) ELSE b1
        b3 == IF rating = "good" THEN Max(1, b2 + 1) ELSE b2
        bucket == IF rating = "easy" THEN Max(2, b3 + 2) ELSE b3
        due == addDays(todayISO, LEITNER_INTERVALS[Min(5, bucket) + 1])
    IN  [term EXCEPT !.bucket = bucket,
                     !.due = due,
                     !.history = Append(term.history, [d |-> clock, rating |-> rating])]

\* The floor of 1 is missing for "again".
scheduleNext_noFloor(term, rating) ==
    LET b0 == term.bucket
        b1 == IF rating = "again" THEN Max(0, b0 - 1) ELSE b0
        b2 == IF rating = "hard" THEN Max(1, b1) ELSE b1
        b3 == IF rating = "good" THEN Min(5, Max(1, b2 + 1)) ELSE b2
        bucket == IF rating = "easy" THEN Min(5, Max(2, b3 + 2)) ELSE b3
        due == addDays(todayISO, LEITNER_INTERVALS[bucket + 1])
    IN  [term EXCEPT !.bucket = bucket,
                     !.due = due,
                     !.history = Append(term.history, [d |-> clock, rating |-> rating])]

\* The history is replaced by the new entry instead of extended by it.
scheduleNext_dropsHistory(term, rating) ==
    LET b0 == term.bucket
        b1 == IF rating = "again" THEN Max(1, b0 - 1) ELSE b0
        b2 == IF rating = "hard" THEN Max(1, b1) ELSE b1
        b3 == IF rating = "good" THEN Min(5, Max(1, b2 + 1)) ELSE b2
        bucket == IF rating = "easy" THEN Min(5, Max(2, b3 + 2)) ELSE b3
        due == addDays(todayISO, LEITNER_INTERVALS[bucket + 1])
    IN  [term EXCEPT !.bucket = bucket,
                     !.due = due,
                     !.history = <<[d |-> clock, rating |-> rating]>>]

\* The new entry is put in front of the history.
scheduleNext_prepends(term, rating) ==
    LET b0 == term.bucket
        b1 == IF rating = "again" THEN Max(1, b0 - 1) ELSE b0
        b2 == IF rating = "hard" THEN Max(1, b1) ELSE b1
        b3 == IF rating = "good" THEN Min(5, Max(1, b2 + 1)) ELSE b2
        bucket == IF rating = "easy" THEN Min(5, Max(2, b3 + 2)) ELSE b3
        due == addDays(todayISO, LEITNER_INTERVALS[bucket + 1])
    IN  [term EXCEPT !.bucket = bucket,
                     !.due = due,
                     !.history = <<[d |-> clock, rating |-> rating]>> \o term.history]

\* scheduleNext(term, rating): the four `if`s run in sequence, each on the
\* bucket the previous one left.
scheduleNext(term, rating) ==
    LET b0 == term.bucket
        b1 == IF rating = "again" THEN Max(1, b0 - 1) ELSE b0
        b2 == IF rating = "hard" THEN Max(1, b1) ELSE b1
        b3 == IF rating = "good" THEN Min(5, Max(1, b2 + 1)) ELSE b2
        bucket == IF rating = "easy" THEN Min(5, Max(2, b3 + 2)) ELSE b3
        interval == LEITNER_INTERVALS[bucket + 1]
        due == addDays(todayISO, interval)
    IN  [term EXCEPT !.bucket = bucket,
                     !.due = due,
                     !.history = Append(term.history, [d |-> clock, rating |-> rating])]

\* A card as every creation site builds it: bucket 0, due today, no history.
NewTerm(id, term, definition, tags) ==
    [id |-> id, term |-> term, definition |-> definition, tags |-> tags,
     source |-> "undefined", bucket |-> 0, due |-> todayISO, history |-> <<>>]

\* SEED (ten cards in the source, one here), with the uid() value `first`.
SEED(first) == << NewTerm(first, "s1", "d1", <<"g1">>) >>

---------------------------------------------------------------------------
\* Array.prototype.sort with (a, b) => a.due.localeCompare(b.due): a stable
\* sort, ascending by due date.
insertByDue(s, t) ==
    LET k == Cardinality({i \in 1..Len(s) : s[i].due <= t.due})
    IN  SubSeq(s, 1, k) \o <<t>> \o SubSeq(s, k + 1, Len(s))

\* Variant: the sort is left out.
sortByDue_unsorted(s) == s

RECURSIVE sortByDue(_)
sortByDue(s) ==
    IF s = <<>> THEN <<>>
    ELSE insertByDue(sortByDue(SubSeq(s, 1, Len(s) - 1)), s[Len(s)])

\* Array.prototype.slice(0, n) for n >= 0.
slice(s, n) == SubSeq(s, 1, Min(n, Len(s)))

\* The body of the dueToday memo, run on the card list `cards` now.
\* Variant: the test of the bucket is left out.
isDue_ignoresBucket(t) == t.due <= todayISO

isDue(t) == t.bucket > 0 /\ t.due <= todayISO
computeDueToday(cards) == sortByDue(SelectSeq(cards, isDue))

\* The newCards memo: depends on `all` only, so it is never stale.
\* Variant: cards of bucket 1 count as new.
isNew_lax(t) == t.bucket <= 1

isNew(t) == t.bucket = 0
newCards == SelectSeq(all, isNew)

\* The queue memo; all its inputs are its dependencies.
queue ==
    IF mode = "review" THEN slice(dueToday, sessionSize)
    ELSE IF mode = "learn" THEN slice(newCards, sessionSize)
    ELSE <<>>

\* current = queue[0] (undefined when the queue is empty).
hasCurrent == Len(queue) > 0
current == queue[1]

\* JSON.stringify of a card: a key whose value is undefined is left out of
\* the text.  The text of an object is the record of the keys it spells.
\* Variant: the history is written as the empty list.
stringifyTerm_dropsHistory(t) ==
    [id |-> t.id, term |-> t.term, definition |-> t.definition, tags |-> t.tags,
     bucket |-> t.bucket, due |-> t.due, history |-> <<>>]

stringifyTerm(t) ==
    IF t.source = "undefined"
    THEN [id |-> t.id, term |-> t.term, definition |-> t.definition, tags |-> t.tags,
          bucket |-> t.bucket, due |-> t.due, history |-> t.history]
    ELSE t

\* JSON.parse of the text of a card: a key the text does not spell reads as
\* undefined.
parseTerm(j) ==
    IF "source" \in DOMAIN j THEN j
    ELSE [id |-> j.id, term |-> j.term, definition |-> j.definition, tags |-> j.tags,
          source |-> "undefined", bucket |-> j.bucket, due |-> j.due, history |-> j.history]

JSONstringify(data) == [i \in 1..Len(data) |-> stringifyTerm(data[i])]
JSONparse(text) == [i \in 1..Len(text) |-> parseTerm(text[i])]

\* localStorage holds JSON text under STORAGE_KEY; "null" (no item under the
\* key) is present = FALSE.
save(data) == [present |-> TRUE, data |-> JSONstringify(data)]

\* Variant of setAll: the effect that saves the set does not run.
setAll_notSaved(next) ==
    /\ all' = next
    /\ dueToday' = computeDueToday(next)
    /\ storage' = storage

\* setAll(next) followed by the render it causes: the dueToday memo is
\* recomputed (its dependency changed) and the effect saves the set.
setAll(next) ==
    /\ all' = next
    /\ dueToday' = computeDueToday(next)
    /\ storage' = save(next)

---------------------------------------------------------------------------
\* The service worker (sw.js).  URLs are written relative to the origin,
\* with scope = "/".  A response is the status the server gave it.
CACHE == "glossary-cache-v1"
scope == "/"

ASSETS ==
    { scope,
      scope \o "index.html",
      scope \o "manifest.webmanifest",
      scope \o "icons/icon-192.png",
      scope \o "icons/icon-512.png" }

\* The URLs requested: the precached assets and a script of the page.
Urls == ASSETS \cup { scope \o "assets/index.js" }

\* The Accept header of a request ("null": the header is absent).
Accepts == {"null", "text/html", "application/json"}

\* request.headers.get('accept')?.includes('application/json')
acceptsJson(accept) == accept = "application/json"

\* What the network does with one fetch(): it fails (offline), or the
\* server answers with a status.
NetOutcomes == {"failed", "200", "404"}

\* Caches that other versions or other pages of the origin left behind.
OtherCaches == {"glossary-cache-v0", "other-app"}

NoReply ==
    [url |-> "", accept |-> "null", hit |-> FALSE, net |-> "unused",
     from |-> "none", status |-> "none"]

\* caches.open(name): the cache is created when it does not exist.
cachesOpen(store, name) ==
    IF name \in DOMAIN store THEN store
    ELSE [n \in DOMAIN store \cup {name} |-> IF n = name THEN <<>> ELSE store[n]]

\* cache.put(request, response) on the cache `name`, which exists.
cachePut(store, name, url, status) ==
    [store EXCEPT ![name] =
        [u \in DOMAIN store[name] \cup {url} |-> IF u = url THEN status ELSE store[name][u]]]

\* caches.match(url): the response of a cache that holds the URL ("none"
\* for undefined).
cachesHas(store, url) == \E n \in DOMAIN store : url \in DOMAIN store[n]

cachesMatch(store, url) ==
    IF cachesHas(store, url)
    THEN store[CHOOSE n \in DOMAIN store : url \in DOMAIN store[n]][url]
    ELSE "none"

\* The install event: skipWaiting(), then caches.open(CACHE) and
\* cache.addAll(ASSETS), which fetches every asset and stores all of them,
\* or rejects and stores none when a fetch fails or a status is not ok;
\* the worker whose install promise rejects is discarded.
Install(net) ==
    LET opened == cachesOpen(cacheStore, CACHE)
        ok == \A u \in ASSETS : net[u] = "200"
    IN  /\ swState = "parsed"
        /\ cacheStore' =
              IF ok
              THEN [opened EXCEPT ![CACHE] =
                      [u \in DOMAIN opened[CACHE] \cup ASSETS |->
                          IF u \in ASSETS THEN net[u] ELSE opened[CACHE][u]]]
              ELSE opened
        /\ swState' = IF ok THEN "installed" ELSE "redundant"
        /\ UNCHANGED <<reply, all, mode, showBack, sessionSize, dueToday, storage, nextId,
                       clock, tz, call, query>>

\* The activate event.
\* Variant: no cache is deleted.
activate_keepsAll(store) == store

\* caches.keys() and caches.delete(k) for every k other than CACHE.
activate(store) == [n \in DOMAIN store \cap {CACHE} |-> store[n]]

\* The installed worker is activated at once (skipWaiting) and claims the
\* pages.
Activate ==
    /\ swState = "installed"
    /\ cacheStore' = activate(cacheStore)
    /\ swState' = "activated"
    /\ UNCHANGED <<reply, all, mode, showBack, sessionSize, dueToday, storage, nextId,
                   clock, tz, call, query>>

\* The fetch listener.  The request was sent to the network when it accepts
\* JSON (network first) or when no cache holds it (cache first).
usesNetwork(url, accept) == acceptsJson(accept) \/ ~cachesHas(cacheStore, url)

\* The response given to event.respondWith.
fetchReply(url, accept, net) ==
    LET hit == cachesHas(cacheStore, url)
        sent == usesNetwork(url, accept)
        base == [url |-> url, accept |-> accept, hit |-> hit,
                 net |-> IF sent THEN net ELSE "unused"]
    IN  IF sent /\ net # "failed"
        THEN base @@ [from |-> "network", status |-> net]
        ELSE IF acceptsJson(accept) \/ hit
        THEN base @@ [from |-> IF hit THEN "cache" ELSE "none",
                      status |-> cachesMatch(cacheStore, url)]
        ELSE base @@ [from |-> "fallback",
                      status |-> cachesMatch(cacheStore, scope \o "index.html")]

\* A response of the network is copied into CACHE, whatever its status.
fetchStore(url, accept, net) ==
    IF usesNetwork(url, accept) /\ net # "failed"
    THEN cachePut(cachesOpen(cacheStore, CACHE), CACHE, url, net)
    ELSE cacheStore

\* A GET request of a page the worker controls.
Fetch(url, accept, net) ==
    /\ swState = "activated"
    /\ reply' = fetchReply(url, accept, net)
    /\ cacheStore' = fetchStore(url, accept, net)
    /\ UNCHANGED <<swState, all, mode, showBack, sessionSize, dueToday, storage, nextId,
                   clock, tz, call, query>>

\* The worker is registered on an origin that holds any of the other caches,
\* and possibly a cache of the current name with an old index.html only.
WorkerInit ==
    /\ tz = [base |-> 0, delta |-> 0, dstAt |-> 0]
    /\ clock = 0
    /\ all = <<>>
    /\ nextId = 1
    /\ mode = "review"
    /\ showBack = FALSE
    /\ sessionSize = 20
    /\ dueToday = <<>>
    /\ storage = save(all)
    /\ call = [done |-> FALSE]
    /\ query = ""
    /\ swState = "parsed"
    /\ \E S \in SUBSET (OtherCaches \cup {CACHE}) :
          cacheStore = [n \in S |-> [u \in {scope \o "index.html"} |-> "200"]]
    /\ reply = NoReply

WorkerNext ==
    \/ \E net \in [ASSETS -> {"failed", "200"}] : Install(net)
    \/ Activate
    \/ \E url \in Urls, accept \in Accepts, net \in NetOutcomes : Fetch(url, accept, net)

WorkerSpec == WorkerInit /\ [][WorkerNext]_vars

---------------------------------------------------------------------------
\* load(): the saved list, or SEED when nothing is saved or the list is empty.
load(raw, seed) ==
    IF ~raw.present THEN seed
    ELSE LET parsed == JSONparse(raw.data)
         IN  IF Len(parsed) > 0 THEN parsed ELSE seed

\* What localStorage holds when the page is first loaded: nothing, or the set
\* an earlier session saved.  In the saved set the seed card was rated "easy"
\* on day -37 (bucket 3, due day -30) and "easy" again on day -30 (bucket 5,
\* due day 0).
SavedSets ==
    { << [id |-> 1, term |-> "s1", definition |-> "d1", tags |-> <<"g1">>, source |-> "undefined",
          bucket |-> 5, due |-> 0,
          history |-> <<[d |-> 0 - 37, rating |-> "easy"], [d |-> 0 - 30, rating |-> "easy"]>>] >> }

InitialStorage == {[present |-> FALSE, data |-> <<>>]} \cup {save(x) : x \in SavedSets}

\* The state after the first render (the effect has saved the loaded set).
Init ==
    /\ tz \in Zones
    /\ clock = 0
    /\ \E raw \in InitialStorage : all = load(raw, SEED(1))
    /\ nextId = 2
    /\ mode = "review"
    /\ showBack = FALSE
    /\ sessionSize = 20
    /\ dueToday = computeDueToday(all)
    /\ storage = save(all)
    /\ call = [done |-> FALSE]
    /\ query = ""
    /\ swState = "parsed"
    /\ cacheStore = <<>>
    /\ reply = NoReply

\* The callback of all.map in rate().
\* Variant: bucket 0 is passed to the scheduler as it is.
rateCard_noCoerce(t, id, rating) ==
    IF t.id = id THEN scheduleNext(t, rating) ELSE t

rateCard(t, id, rating) ==
    IF t.id = id
    THEN scheduleNext([t EXCEPT !.bucket = IF t.bucket = 0 THEN 1 ELSE t.bucket], rating)
    ELSE t

\* rate(rating): returns at once when there is no current card.
\* Variant: every card of the set is rated, not the current one alone.
rate_all(rating) ==
    IF ~hasCurrent THEN UNCHANGED vars
    ELSE /\ setAll([i \in 1..Len(all) |-> rateCard(all[i], all[i].id, rating)])
         /\ showBack' = FALSE
         /\ UNCHANGED <<mode, sessionSize, nextId, clock, tz, call, query, swVars>>

rate(rating) ==
    IF ~hasCurrent THEN UNCHANGED vars
    ELSE /\ setAll([i \in 1..Len(all) |-> rateCard(all[i], current.id, rating)])
         /\ showBack' = FALSE
         /\ UNCHANGED <<mode, sessionSize, nextId, clock, tz, call, query, swVars>>

\* The Again/Hard/Good/Easy buttons, which are rendered only outside browse
\* mode, with a current card, after a reveal.
Rate(rating) ==
    /\ mode # "browse"
    /\ hasCurrent
    /\ showBack
    /\ Len(current.history) < MaxHist
    /\ rate(rating)

\* The reveal button: rendered for the current card while showBack is false.
Reveal ==
    /\ mode # "browse"
    /\ hasCurrent
    /\ ~showBack
    /\ showBack' = TRUE
    /\ UNCHANGED <<all, mode, sessionSize, dueToday, storage, nextId, clock, tz, call, query, swVars>>

\* The three mode buttons of the header (and "go to learning" in browse).
SetMode(m) ==
    /\ mode' = m
    /\ UNCHANGED <<all, showBack, sessionSize, dueToday, storage, nextId, clock, tz, call, query, swVars>>

\* The session-size input, rendered with the current card; v is the number
\* typed: Math.max(5, Number(v) || 20).
SizeInputs == {0, 3}

SetSessionSize(v) ==
    /\ mode # "browse"
    /\ hasCurrent
    /\ sessionSize' = Max(5, IF v = 0 THEN 20 ELSE v)
    /\ UNCHANGED <<all, mode, showBack, dueToday, storage, nextId, clock, tz, call, query, swVars>>

\* resetProgress(), confirmed.
\* Variant: the history survives the reset.
resetCard_keepsHistory(t) == [t EXCEPT !.bucket = 0, !.due = todayISO]

resetCard(t) == [t EXCEPT !.bucket = 0, !.due = todayISO, !.history = <<>>]

ResetProgress ==
    /\ setAll([i \in 1..Len(all) |-> resetCard(all[i])])
    /\ mode' = "learn"
    /\ UNCHANGED <<showBack, sessionSize, nextId, clock, tz, call, query, swVars>>

\* importCSV(csv), reached from the import dialog of browse mode.  The text
\* is a sequence of lines and a line a sequence of fields (the pieces between
\* ';' or tab); fields carry no surrounding blanks.  A line that is empty
\* after trim() is the line <<"">>.
CsvInputs ==
    { << <<"">> >>,
      << <<"t1", "d1", "g1,g2">> >>,
      << <<"t1">>, <<"">>, <<"t2", "d2", "">> >> }

\* tags.split(',').map(s => s.trim()) for the tag fields of CsvInputs.
splitTags(field) == IF field = "g1,g2" THEN <<"g1", "g2">> ELSE <<field>>

parseRow(r, id) ==
    LET term == r[1]
        definition == IF Len(r) >= 2 THEN r[2] ELSE ""
        tags == IF Len(r) >= 3 /\ r[3] # "" THEN splitTags(r[3]) ELSE <<>>
    IN  NewTerm(id, term, definition, tags)

nonEmptyLine(r) == r # <<"">>

\* importCSV(csv): after the alert of the empty case nothing has changed.
\* Variant: a text without a card empties the set.
importCSV_emptyClears(csv) ==
    LET rows == SelectSeq(csv, nonEmptyLine)
        parsed == [i \in 1..Len(rows) |-> parseRow(rows[i], nextId + i - 1)]
    IN  /\ setAll(parsed)
        /\ mode' = "learn"
        /\ nextId' = nextId + Len(parsed)
        /\ UNCHANGED <<showBack, sessionSize, clock, tz, call, query, swVars>>

importCSV(csv) ==
    LET rows == SelectSeq(csv, nonEmptyLine)
        parsed == [i \in 1..Len(rows) |-> parseRow(rows[i], nextId + i - 1)]
    IN  IF Len(parsed) = 0 THEN UNCHANGED vars
        ELSE /\ setAll(parsed)
             /\ mode' = "learn"
             /\ nextId' = nextId + Len(parsed)
             /\ UNCHANGED <<showBack, sessionSize, clock, tz, call, query, swVars>>

\* The import button of the dialog.
ImportCSV(csv) ==
    /\ mode = "browse"
    /\ nextId + Len(SelectSeq(csv, nonEmptyLine)) - 1 <= MaxId
    /\ importCSV(csv)

\* addOne(), reached from browse mode, with the three prompts answered by
\* term, definition and the tags typed (blank tags are filtered out).
nonBlank(x) == x # ""

AddOne(term, definition, tagsTyped) ==
    /\ mode = "browse"
    /\ term # ""
    /\ nextId <= MaxId
    /\ setAll(Append(all, NewTerm(nextId, term, definition, SelectSeq(tagsTyped, nonBlank))))
    /\ nextId' = nextId + 1
    /\ UNCHANGED <<mode, showBack, sessionSize, clock, tz, call, query, swVars>>

\* The search box of browse mode.
QueryInputs == {"", "t3"}

SetQuery(q) ==
    /\ mode = "browse"
    /\ query' = q
    /\ UNCHANGED <<all, mode, showBack, sessionSize, dueToday, storage, nextId, clock, tz, call, swVars>>

\* filtered: the cards listed in browse mode.  String.includes on the
\* lower-cased term, definition and tags; the texts of the model are
\* lower-case and none is a proper part of another, so a non-empty query is
\* included in exactly the text equal to it.
includes(text, q) == q = "" \/ text = q

matches(t) ==
    \/ includes(t.term, query)
    \/ includes(t.definition, query)
    \/ \E i \in 1..Len(t.tags) : includes(t.tags[i], query)

filtered == IF query = "" THEN all ELSE SelectSeq(all, matches)

\* The delete button of a card listed in browse mode.
Delete(id) ==
    LET keep(x) == x.id # id
    IN  /\ mode = "browse"
        /\ \E i \in 1..Len(filtered) : filtered[i].id = id
        /\ setAll(SelectSeq(all, keep))
        /\ UNCHANGED <<mode, showBack, sessionSize, nextId, clock, tz, call, query, swVars>>

\* The page is loaded again: the module is evaluated (SEED gets new uid()s
\* and today's date) and App is mounted with its initial state.
Reload ==
    LET usesSeed == ~storage.present \/ Len(storage.data) = 0
    IN  /\ usesSeed => nextId <= MaxId
        /\ setAll(load(storage, SEED(nextId)))
        /\ nextId' = IF usesSeed THEN nextId + 1 ELSE nextId
        /\ mode' = "review"
        /\ showBack' = FALSE
        /\ sessionSize' = 20
        /\ query' = ""
        /\ UNCHANGED <<clock, tz, call, swVars>>

\* Midnight UTC passes with the page left open.  Nothing is rendered, and
\* the dueToday memo keeps the value computed when `all` last changed.
Tick ==
    /\ clock < MaxDay
    /\ clock' = clock + 1
    /\ UNCHANGED <<all, mode, showBack, sessionSize, dueToday, storage, nextId, tz, call, query, swVars>>

\* The ratings given in the application: "hard" leaves the bucket where it
\* is, as "again" does for a card at bucket 1, and is left to SchedSpec.
AppRatings == {"again", "good", "easy"}

Next ==
    \/ \E r \in AppRatings : Rate(r)
    \/ Reveal
    \/ \E m \in Modes : SetMode(m)
    \/ \E v \in SizeInputs : SetSessionSize(v)
    \/ ResetProgress
    \/ \E csv \in CsvInputs : ImportCSV(csv)
    \/ \E t \in {"", "t3"}, tg \in {<<"g3", "">>} : AddOne(t, "d3", tg)
    \/ \E id \in 1..MaxId : Delete(id)
    \/ Reload
    \/ Tick

Spec == Init /\ [][Next]_vars

\* The application with the search box of browse mode in use, on one day
\* and with the session size left at 20.
BrowseNext ==
    \/ \E r \in AppRatings : Rate(r)
    \/ Reveal
    \/ \E m \in Modes : SetMode(m)
    \/ ResetProgress
    \/ \E csv \in CsvInputs : ImportCSV(csv)
    \/ \E t \in {"", "t3"}, tg \in {<<"g3", "">>} : AddOne(t, "d3", tg)
    \/ \E q \in QueryInputs : SetQuery(q)
    \/ \E id \in 1..MaxId : Delete(id)
    \/ Reload

BrowseSpec == Init /\ [][BrowseNext]_vars

---------------------------------------------------------------------------
\* scheduleNext as a function on its own: one call, with the argument, the
\* rating, the clock and the time zone drawn from bounded sets.
SchedHists ==
    UNION { [1..n -> {[d |-> 0, rating |-> r] : r \in {"again", "easy"}}] : n \in 0..(MaxHist - 1) }

SchedTerms ==
    { [id |-> 1, term |-> "t1", definition |-> "d1", tags |-> tg, source |-> src,
       bucket |-> b, due |-> du, history |-> h] :
        tg \in {<<>>, <<"g1">>}, src \in {"undefined", "book"},
        b \in 0..5, du \in 0..MaxDay, h \in SchedHists }

SchedInit ==
    /\ tz \in Zones
    /\ clock \in 0..MaxDay
    /\ all = <<>>
    /\ nextId = 1
    /\ mode = "review"
    /\ showBack = FALSE
    /\ sessionSize = 20
    /\ dueToday = <<>>
    /\ storage = save(all)
    /\ query = ""
    /\ swState = "parsed"
    /\ cacheStore = <<>>
    /\ reply = NoReply
    /\ \E t \in SchedTerms, r \in Ratings :
          call = [done |-> FALSE, term |-> t, rating |-> r, ret |-> t]

SchedCall ==
    /\ ~call.done
    /\ call' = [call EXCEPT !.ret = scheduleNext(call.term, call.rating), !.done = TRUE]
    /\ UNCHANGED <<all, mode, showBack, sessionSize, dueToday, storage, nextId, clock, tz, query, swVars>>

SchedNext == SchedCall

SchedSpec == SchedInit /\ [][SchedNext]_vars

\* The callback of rate() as a function on its own: one call on the card
\* that is rated, with the card, the rating, the clock and the time zone
\* drawn as for scheduleNext.
RateCall ==
    /\ ~call.done
    /\ call' = [call EXCEPT !.ret = rateCard(call.term, call.term.id, call.rating),
                            !.done = TRUE]
    /\ UNCHANGED <<all, mode, showBack, sessionSize, dueToday, storage, nextId, clock, tz, query, swVars>>

RateNext == RateCall

RateSpec == SchedInit /\ [][RateNext]_vars

---------------------------------------------------------------------------
\* The queue selection on card sets drawn from a bounded set: card i is new
\* (kind 0) or was rated "again" on day k - 2 and is in bucket 1, due on day
\* k - 1, for a kind k in 1..2.
QueueTerm(i, k) ==
    IF k = 0
    THEN [id |-> i, term |-> "t1", definition |-> "d1", tags |-> <<>>, source |-> "undefined",
          bucket |-> 0, due |-> 0, history |-> <<>>]
    ELSE [id |-> i, term |-> "t1", definition |-> "d1", tags |-> <<>>, source |-> "undefined",
          bucket |-> 1, due |-> k - 1, history |-> <<[d |-> k - 2, rating |-> "again"]>>]

QueueInit ==
    /\ tz = [base |-> 0, delta |-> 0, dstAt |-> 0]
    /\ clock \in 0..MaxDay
    /\ \E n \in 0..MaxQCards : \E f \in [1..n -> 0..2] :
          all = [i \in 1..n |-> QueueTerm(i, f[i])]
    /\ nextId = Len(all) + 1
    /\ mode = "review"
    /\ showBack = FALSE
    /\ sessionSize = 20
    /\ dueToday = computeDueToday(all)
    /\ storage = save(all)
    /\ call = [done |-> FALSE]
    /\ query = ""
    /\ swState = "parsed"
    /\ cacheStore = <<>>
    /\ reply = NoReply

QueueNext ==
    \/ \E m \in Modes : SetMode(m)
    \/ \E v \in SizeInputs : SetSessionSize(v)
    \/ Tick

QueueSpec == QueueInit /\ [][QueueNext]_vars

---------------------------------------------------------------------------
\* Properties of scheduleNext (SchedSpec)

\* C1: for every bucket B in 0..5 and every rating the returned bucket is
\* again -> max(1, B-1), hard -> max(1, B), good -> min(5, max(1, B+1)),
\* easy -> min(5, max(2, B+2)).
C1_BucketTransition ==
    call.done =>
        LET B == call.term.bucket
            b == call.ret.bucket
        IN  /\ call.rating = "again" => b = Max(1, B - 1)
            /\ call.rating = "hard" => b = Max(1, B)
            /\ call.rating = "good" => b = Min(5, Max(1, B + 1))
            /\ call.rating = "easy" => b = Min(5, Max(2, B + 2))

\* bucket 5 rated "good" stays at 5.
C1_Witness ==
    /\ call.done
    /\ call.term.bucket = 5
    /\ call.rating = "good"
    /\ call.ret.bucket = 5

\* C2: the returned due date is today plus INTERVALS[new bucket] days, and
\* so strictly after today.
C2_DueIsTodayPlusInterval ==
    call.done =>
        /\ call.ret.due = clock + LEITNER_INTERVALS[call.ret.bucket + 1]
        /\ call.ret.due > clock

\* C3: the returned history is the argument's history with one entry of the
\* given rating appended; id, term, definition, tags and source are the
\* argument's; the argument is not changed by the call.
C3_HistoryAppended ==
    /\ [](call.done =>
            LET h == call.term.history
                h2 == call.ret.history
            IN  /\ Len(h2) = Len(h) + 1
                /\ \A i \in 1..Len(h) : h2[i] = h[i]
                /\ h2[Len(h2)].rating = call.rating
                /\ call.ret.id = call.term.id
                /\ call.ret.term = call.term.term
                /\ call.ret.definition = call.term.definition
                /\ call.ret.tags = call.term.tags
                /\ call.ret.source = call.term.source)
    /\ [][call'.term = call.term /\ call'.rating = call.rating]_vars

\* A card with two earlier entries, tags and a source has been scheduled.
C3_Witness ==
    /\ call.done
    /\ Len(call.term.history) = 2
    /\ call.term.history[1].rating # call.term.history[2].rating
    /\ call.term.tags # <<>>
    /\ call.term.source = "book"

---------------------------------------------------------------------------
\* Properties of the card set of the application (Spec)

\* C4: every card of the set has its bucket in 0..5.
C4_BucketRange ==
    \A i \in 1..Len(all) : all[i].bucket \in 0..5

\* A card at bucket 5 has been rated "easy" once more and is at bucket 5.
C4_Witness ==
    \E i \in 1..Len(all) :
        /\ all[i].bucket = 5
        /\ Len(all[i].history) = 3
        /\ all[i].history[3].rating = "easy"

\* C5: a card has bucket 0 exactly if its history is empty.
C5_BucketZeroIffUnrated ==
    \A i \in 1..Len(all) : (all[i].bucket = 0) <=> (all[i].history = <<>>)

\* A card rated once since the page was loaded stands next to a card that
\* has no rating.
C5_Witness ==
    \E i, j \in 1..Len(all) :
        /\ all[i].bucket > 0
        /\ Len(all[i].history) = 1
        /\ all[i].history[1].d >= 0
        /\ all[j].bucket = 0
        /\ all[j].history = <<>>

IsPrefix(s, t) ==
    /\ Len(s) <= Len(t)
    /\ \A i \in 1..Len(s) : s[i] = t[i]

\* The step keeps the history of every card that is in the set before and
\* after it as a prefix of the card's new history.
HistoriesGrow ==
    \A i \in 1..Len(all) : \A j \in 1..Len(all') :
        all[i].id = all'[j].id => IsPrefix(all[i].history, all'[j].history)

\* C6 as stated: every action, reset-progress included, keeps the history of
\* a card that stays in the set as a prefix of its new history.
C6_HistoryOnlyGrows == [][HistoriesGrow]_vars

\* C6 as amended: every action other than reset-progress does.
C6_HistoryGrowsUnlessReset == [][ResetProgress \/ HistoriesGrow]_vars

\* A card has been rated twice since the page was loaded.
C6_Witness ==
    \E i \in 1..Len(all) :
        /\ Len(all[i].history) >= 2
        /\ all[i].history[1].d >= 0
        /\ all[i].history[1] # all[i].history[2]

\* The step leaves every rated card that stays in the set at bucket 1 or more.
RatedStayActive ==
    \A i \in 1..Len(all) : \A j \in 1..Len(all') :
        (all[i].id = all'[j].id /\ all[i].history # <<>>) => all'[j].bucket >= 1

\* C7 as stated: once a card has been rated, no action takes its bucket
\* below 1 while the card is in the set.
C7_RatedNeverBelowOne == [][RatedStayActive]_vars

\* C7 as amended: no action other than reset-progress does.
C7_RatedNeverBelowOneUnlessReset == [][ResetProgress \/ RatedStayActive]_vars

\* A card at bucket 1 has been rated "again" a second time and is at bucket 1.
C7_Witness ==
    \E i \in 1..Len(all) :
        /\ Len(all[i].history) >= 2
        /\ all[i].history[Len(all[i].history)].rating = "again"
        /\ all[i].bucket = 1

---------------------------------------------------------------------------
\* Properties of the queue (QueueSpec)

Eligible(t) == t.bucket > 0 /\ t.due <= clock
InQueue(t) == \E i \in 1..Len(queue) : queue[i].id = t.id
PosInSet(t) == CHOOSE i \in 1..Len(all) : all[i].id = t.id

\* C8: in review mode every card of the queue has bucket > 0 and is due
\* today or earlier.
C8_ReviewQueueDue ==
    mode = "review" =>
        \A i \in 1..Len(queue) : queue[i].bucket > 0 /\ queue[i].due <= clock

\* After the limit was set to 5 the review queue is not empty while the set
\* holds a new card and a card that is due later than today.
C8_Witness ==
    /\ mode = "review"
    /\ sessionSize = 5
    /\ Len(queue) > 0
    /\ \E i, j \in 1..Len(all) :
          /\ all[i].bucket = 0
          /\ all[i].due <= clock
          /\ all[j].bucket > 0
          /\ all[j].due > clock

\* C9: in learn mode the queue is the first `limit` cards of bucket 0 in the
\* order of the set; in browse mode it is empty.
C9_LearnQueue ==
    /\ mode = "browse" => queue = <<>>
    /\ mode = "learn" =>
          LET news == {k \in 1..Len(all) : all[k].bucket = 0}
              nth(i) == CHOOSE k \in news : Cardinality({m \in news : m <= k}) = i
          IN  /\ Len(queue) = Min(sessionSize, Cardinality(news))
              /\ \A i \in 1..Len(queue) : queue[i] = all[nth(i)]

\* The learn queue is cut at the limit and skips a rated card of the set.
C9_Witness ==
    /\ mode = "learn"
    /\ Len(queue) = sessionSize
    /\ Cardinality({k \in 1..Len(all) : all[k].bucket = 0}) > sessionSize
    /\ all[1].bucket > 0
    /\ queue[1] = all[2]

---------------------------------------------------------------------------
\* exportJSON(): the text JSON.stringify(all, null, 2), as its lines after
\* trim().  A scalar key is one line, an empty array is one line, an array
\* with elements is an opening line, the lines of the elements and a closing
\* line; the commas at the ends of lines are not spelled.
jsonKey(key, value) == "\"" \o key \o "\": " \o ToString(value)

jsonTags(tags) ==
    IF tags = <<>> THEN << jsonKey("tags", <<>>) >>
    ELSE <<"\"tags\": [">> \o [i \in 1..Len(tags) |-> ToString(tags[i])] \o <<"]">>

jsonHistory(h) ==
    IF h = <<>> THEN << jsonKey("history", <<>>) >>
    ELSE <<"\"history\": [">>
         \o [i \in 1..(4 * Len(h)) |->
                LET e == h[((i - 1) \div 4) + 1]
                    k == (i - 1) % 4
                IN  IF k = 0 THEN "{"
                    ELSE IF k = 1 THEN jsonKey("d", e.d)
                    ELSE IF k = 2 THEN jsonKey("rating", e.rating)
                    ELSE "}"]
         \o <<"]">>

jsonTerm(t) ==
    <<"{", jsonKey("id", t.id), jsonKey("term", t.term), jsonKey("definition", t.definition)>>
    \o jsonTags(t.tags)
    \o (IF t.source = "undefined" THEN <<>> ELSE << jsonKey("source", t.source) >>)
    \o << jsonKey("bucket", t.bucket), jsonKey("due", t.due) >>
    \o jsonHistory(t.history)
    \o <<"}">>

RECURSIVE jsonTerms(_)
jsonTerms(cards) ==
    IF cards = <<>> THEN <<>>
    ELSE jsonTerm(cards[1]) \o jsonTerms(SubSeq(cards, 2, Len(cards)))

exportJSON(cards) ==
    IF cards = <<>> THEN <<"[]">> ELSE <<"[">> \o jsonTerms(cards) \o <<"]">>

\* The exported text as importCSV reads it: no line of it holds a ';' or a
\* tab (no text of a card of the model does), so every line is one field.
csvOfLines(lines) == [i \in 1..Len(lines) |-> << lines[i] >>]

\* The export button, and the text of the file pasted into the import
\* dialog and imported.
ExportImport ==
    /\ mode = "browse"
    /\ importCSV(csvOfLines(exportJSON(all)))

\* The card sets exported: up to two cards, each new, or rated once today,
\* or the card of a saved set.
RoundTripCards(id) ==
    { NewTerm(id, "t1", "d1", <<"g1", "g2">>) }
    \cup { rateCard(NewTerm(id, "t2", "", <<>>), id, r) : r \in Ratings }
    \cup { [s[1] EXCEPT !.id = id] : s \in SavedSets }

RoundTripSets ==
    {<<>>} \cup { <<a>> : a \in RoundTripCards(1) }
    \cup { <<a, b>> : a \in RoundTripCards(1), b \in RoundTripCards(2) }

RoundTripInit ==
    /\ tz \in Zones
    /\ clock \in 0..MaxDay
    /\ all \in RoundTripSets
    /\ nextId = Len(all) + 1
    /\ mode = "browse"
    /\ showBack = FALSE
    /\ sessionSize = 20
    /\ dueToday = computeDueToday(all)
    /\ storage = save(all)
    /\ call = [done |-> FALSE]
    /\ query = ""
    /\ swState = "parsed"
    /\ cacheStore = <<>>
    /\ reply = NoReply

RoundTripNext == ExportImport

RoundTripSpec == RoundTripInit /\ [][RoundTripNext]_vars

---------------------------------------------------------------------------
\* The identifiers of the cards of a list.
IdsOf(cards) == {cards[i].id : i \in 1..Len(cards)}

\* The identifiers that were given to a card which is no longer in the set.
GoneIds == {id \in 1..(nextId - 1) : id \notin IdsOf(all)}

\* C11: a card that has left the set (the delete button, or the set was
\* replaced) is in neither queue and not in the browse list, and its
\* identifier never comes back into the set, whatever is done next: add,
\* import, reset, or a reload of the page from localStorage.
C11_DeletedStaysOut ==
    /\ [](\A id \in GoneIds :
            /\ id \notin IdsOf(slice(dueToday, sessionSize))
            /\ id \notin IdsOf(slice(newCards, sessionSize))
            /\ id \notin IdsOf(queue)
            /\ id \notin IdsOf(filtered))
    /\ [][\A id \in GoneIds : id \notin IdsOf(all')]_vars

\* Card 1 was deleted, then the last card of the set was deleted, and the
\* page was loaded again: the set holds the seed card under a new identifier.
C11_Witness ==
    /\ 1 \in GoneIds
    /\ Len(all) = 1
    /\ all[1].term = "s1"
    /\ all[1].id > 1
    /\ all[1].history = <<>>

\* A step of the rating buttons.
RateStep == \E r \in AppRatings : Rate(r)

\* C12: a rating given while the queue is not empty replaces the entry of
\* the queue head in the set by the scheduler's result for it; afterwards
\* the rated card is not in the queue of the current mode and the
\* definition is hidden.
C12_RatedLeavesQueue ==
    [][RateStep =>
          /\ Len(all') = Len(all)
          /\ \E r \in AppRatings : \A i \in 1..Len(all) :
                all[i].id = current.id => all'[i] = rateCard(all[i], current.id, r)
          /\ current.id \notin IdsOf(queue')
          /\ showBack' = FALSE]_vars

\* The step replaces the card at the head of the queue by another card.
HeadChanges == hasCurrent /\ hasCurrent' /\ current'.id # current.id

\* C13: whenever the queue head changes (rating, mode switch, deletion,
\* import, reset) the new head is shown front side, the definition hidden
\* and the rating buttons not available, so that a card is rated only
\* after a reveal made while that card was the head.
C13_NewHeadShownFront == [][HeadChanges => showBack' = FALSE]_vars

\* C14 as stated: after every change of the card set localStorage holds
\* exactly the set in memory, and a reload yields exactly the set last
\* saved, for every card set.
C14_ReloadYieldsSaved ==
    /\ [](storage.present /\ JSONparse(storage.data) = all)
    /\ [][Reload => all' = JSONparse(storage.data)]_vars

\* C14: after every change of the card set localStorage holds exactly the
\* set in memory; a reload yields exactly the set last saved when that set
\* is not empty, and the seed set under new identifiers when it is empty.
C14_ReloadYieldsSavedOrSeed ==
    /\ [](storage.present /\ JSONparse(storage.data) = all)
    /\ [][Reload =>
            IF Len(storage.data) > 0
            THEN all' = JSONparse(storage.data) /\ all' = all
            ELSE all' = SEED(nextId)]_vars

\* The set was emptied and the page loaded again (the seed card has a new
\* identifier); the card was rated since, and the rated card is what
\* localStorage holds.
C14_Witness ==
    /\ Len(all) = 1
    /\ all[1].id > 1
    /\ all[1].term = "s1"
    /\ all[1].history # <<>>
    /\ storage.present
    /\ JSONparse(storage.data) = all

\* A card as it is created: bucket 0, due today, no history.
Fresh(t) == t.bucket = 0 /\ t.due = todayISO /\ t.history = <<>>

\* C15: a successful import replaces the whole set by the imported cards,
\* one per non-empty line and in the order of the lines; every card that
\* import, add or the seed creates starts with bucket 0, due today and no
\* history; an import of a text without a non-empty line changes neither
\* the set nor the mode.
C15_ImportAndCreation ==
    /\ \A i \in 1..Len(all) : all[i].history = <<>> => Fresh(all[i])
    /\ [](\A csv \in CsvInputs :
            SelectSeq(csv, nonEmptyLine) = <<>> =>
                ~ ENABLED (importCSV(csv) /\ (all' # all \/ mode' # mode)))
    /\ [][/\ \A csv \in CsvInputs :
               LET rows == SelectSeq(csv, nonEmptyLine)
               IN  (ImportCSV(csv) /\ rows # <<>>) =>
                       /\ Len(all') = Len(rows)
                       /\ \A i \in 1..Len(rows) :
                             /\ all'[i].term = rows[i][1]
                             /\ all'[i].id \notin IdsOf(all)
                             /\ Fresh(all'[i])
          /\ (\E t \in {"t3"}, tg \in {<<"g3", "">>} : AddOne(t, "d3", tg)) =>
               /\ Len(all') = Len(all) + 1
               /\ SubSeq(all', 1, Len(all)) = all
               /\ Fresh(all'[Len(all')])
          /\ (Reload /\ Len(storage.data) = 0) =>
               /\ Len(all') > 0
               /\ \A i \in 1..Len(all') : Fresh(all'[i])]_vars

\* A rated card was replaced by the import of the line "t1;d1;g1,g2".
C15_Witness ==
    /\ mode = "learn"
    /\ Len(all) = 1
    /\ 1 \in GoneIds
    /\ all[1].term = "t1"
    /\ all[1].tags = <<"g1", "g2">>
    /\ Fresh(all[1])

\* The fields a round trip is to keep.
SameContent(a, b) ==
    /\ a.term = b.term
    /\ a.definition = b.definition
    /\ a.tags = b.tags
    /\ a.bucket = b.bucket
    /\ a.due = b.due
    /\ a.history = b.history

\* C16: after the export of the set and the import of the exported text,
\* every card of the set has the term, definition, tags, bucket, due date
\* and history of a card of the set that was exported.
C16_ExportImportRoundTrip ==
    [][ExportImport =>
          \A j \in 1..Len(all') : \E i \in 1..Len(all) : SameContent(all[i], all'[j])]_vars

\* C17: the first rating of a card of bucket 0 is computed as the rating
\* of the same card at bucket 1: it ends at bucket 1 for "again" and
\* "hard", 2 for "good", 3 for "easy"; a card of bucket 1 or more goes to
\* the scheduler as it is.
C17_FirstRatingFromBucketOne ==
    call.done =>
        LET t == call.term
            r == call.rating
        IN  /\ t.bucket = 0 =>
                  /\ call.ret = scheduleNext([t EXCEPT !.bucket = 1], r)
                  /\ r \in {"again", "hard"} => call.ret.bucket = 1
                  /\ r = "good" => call.ret.bucket = 2
                  /\ r = "easy" => call.ret.bucket = 3
            /\ t.bucket >= 1 => call.ret = scheduleNext(t, r)

\* A new card was rated "hard" and is at bucket 1.
C17_Witness ==
    /\ call.done
    /\ call.term.bucket = 0
    /\ call.term.history = <<>>
    /\ call.rating = "hard"
    /\ call.ret.bucket = 1
    /\ Len(call.ret.history) = 1

\* C18: a rating changes the card at the head of the queue and no other:
\* the set keeps its size and order and every other card stays as it was;
\* with an empty queue rate() changes nothing (set, mode, reveal state).
C18_RateChangesHeadOnly ==
    /\ [](~hasCurrent =>
            \A r \in Ratings : ~ ENABLED (rate(r) /\ vars' # vars))
    /\ [][RateStep =>
            /\ Len(all') = Len(all)
            /\ \A i \in 1..Len(all) :
                  /\ all'[i].id = all[i].id
                  /\ all[i].id # current.id => all'[i] = all[i]
                  /\ all[i].id = current.id => all'[i] # all[i]
            /\ Cardinality({i \in 1..Len(all) : all'[i] # all[i]}) = 1]_vars

\* The first card of a set of two was rated today and the second card,
\* which is new, is as it was created.
C18_Witness ==
    /\ Len(all) = 2
    /\ all[1].history # <<>>
    /\ all[1].history[Len(all[1].history)].d = clock
    /\ all[1].due > clock
    /\ all[2].history = <<>>
    /\ all[2].bucket = 0
    /\ showBack = FALSE
    /\ mode # "browse"

\* The day of the last rating of a card that was rated.
LastRated(t) == t.history[Len(t.history)].d

\* C19: a card last rated on day D that is in bucket b is in no review
\* queue on a day before D + INTERVALS[b], and from that day on it passes
\* the review filter (bucket > 0 and due <= today).
C19_DueAfterInterval ==
    \A i \in 1..Len(all) :
        LET t == all[i]
        IN  t.history # <<>> =>
                LET dueDay == LastRated(t) + LEITNER_INTERVALS[t.bucket + 1]
                IN  /\ clock < dueDay =>
                          /\ t.id \notin IdsOf(dueToday)
                          /\ mode = "review" => t.id \notin IdsOf(queue)
                    /\ clock >= dueDay => isDue(t)

\* The number of cards that are eligible for the queue of the current mode
\* today.
EligibleCount ==
    IF mode = "review" THEN Cardinality({i \in 1..Len(all) : isDue(all[i])})
    ELSE IF mode = "learn" THEN Cardinality({i \in 1..Len(all) : isNew(all[i])})
    ELSE 0

\* C20: every rating takes one card out of the cards eligible for the
\* current mode (the date does not change in a rating), so that a session
\* without add, import and reset reaches the empty queue after as many
\* ratings as there were eligible cards.
C20_RatingDecreasesEligible ==
    [][RateStep => (clock' = clock /\ EligibleCount' = EligibleCount - 1)]_vars

\* C21: once the worker is installed and activated, CACHE is the only
\* cache of the origin and holds every precached asset; a request for a
\* precached asset that does not accept JSON is answered from the cache and
\* is not sent to the network; a request that does not accept JSON, is in
\* no cache and fails on the network is answered with the cached
\* index.html.
C21_OfflineAssets ==
    swState = "activated" =>
        /\ DOMAIN cacheStore = {CACHE}
        /\ ASSETS \subseteq DOMAIN cacheStore[CACHE]
        /\ (reply # NoReply /\ ~acceptsJson(reply.accept)) =>
              /\ reply.url \in ASSETS =>
                    /\ reply.hit
                    /\ reply.from = "cache"
                    /\ reply.net = "unused"
                    /\ reply.status = cacheStore[CACHE][reply.url]
              /\ (~reply.hit /\ reply.net = "failed") =>
                    /\ reply.from = "fallback"
                    /\ reply.status = cacheStore[CACHE][scope \o "index.html"]

\* The page was requested by a navigation and answered from the cache.
C21_Witness ==
    /\ swState = "activated"
    /\ reply.url = scope
    /\ reply.accept = "text/html"
    /\ reply.from = "cache"
    /\ reply.net = "unused"
    /\ reply.status = "200"

====
